---- MODULE Spec2Model ----
(***************************************************************************)
(* Adaptive SHiP-D last-level-cache replacement policy                     *)
(* (src/066_adaptive_ship_d.cc).                                           *)
(*                                                                         *)
(* The state is the policy's static arrays and counters.  One action per   *)
(* entry point: InitReplacementState, GetVictimInSet (select_victim) and   *)
(* UpdateReplacementState (record_outcome).  The static helpers            *)
(* GetSignature, FindVictimWay and MonitorEpoch are operators the actions  *)
(* call, so an action covers the whole handler.                            *)
(*                                                                         *)
(* The geometry (sets, ways, signature table) is scaled down; the          *)
(* saturation limits, thresholds and ratios are the program's.  The miss   *)
(* rate and the stream hit ratio are C doubles: they are modelled as IEEE  *)
(* binary64 values (53-bit significand, round to nearest even), because    *)
(* MonitorEpoch compares them with >= and < against decimal literals.      *)
(***************************************************************************)
EXTENDS Integers, Sequences, FiniteSets, TLC

(***************************************************************************)
(* Geometry of the model (scaled from LLC_SETS = 2048, LLC_WAYS = 16,      *)
(* SIG_TABLE_SIZE = 2048) and program constants.                           *)
(***************************************************************************)
LLC_SETS == 2
LLC_WAYS == 2
SIG_TABLE_SIZE == 2

MAX_RRPV == 3
SHCT_INIT == 2
SHCT_MAX == 3
SHCT_THRESHOLD == 2
STCT_INIT == 1
STCT_MAX == 3

\* EPOCH_LENGTH is the program's epoch length, used by SpecLong.  EpochLen
\* is the epoch length of the call-by-call specification Spec.
EPOCH_LENGTH == 100000
EpochLen == 2

\* (uint64_t)-1: no paddr >> 6 equals it.
INVALID_BLK == -1

\* Bounds of the exploration: calls per run, the largest block address, and
\* the number of aging passes after which the model reports that the victim
\* search is still running.
MaxVictimCalls == 5
MaxOutcomeSteps == 4
MaxCalls == 5
MaxBlock == 2
SearchFuel == 5
LongVictimCalls == 2
LongOutcomeSteps == 4
MaxSetsCalls == 5
MaxUncheckedCalls == 3

Sets == 0 .. (LLC_SETS - 1)
Ways == 0 .. (LLC_WAYS - 1)
Sigs == 0 .. (SIG_TABLE_SIZE - 1)

\* Inputs: program counters whose hash uses the shifted copies (4096 has
\* signature 1, 1048577 has signature 0) and one physical address inside each
\* 64-byte block 0 .. MaxBlock.  UpdateReplacementState does not read its PC:
\* its calls are made with one PC, whose signature is or is not the signature
\* of the line it touches.
PCs == {4096, 1048577}
OutcomePCs == {4096}

\* Spec and SpecLong address one set; SpecSets addresses every set with calls
\* of one PC whose block addresses are 0 and 1.
FocusSets == {0}
SetsPCs == {4096}
SetsPAddrs == {0, 65}
PAddrs == {b * 64 + b : b \in 0 .. MaxBlock}

(***************************************************************************)
(* Bitwise operators on naturals.                                          *)
(***************************************************************************)
RECURSIVE BitXor(_, _)
BitXor(a, b) ==
    IF a = 0 THEN b
    ELSE IF b = 0 THEN a
    ELSE (((a % 2) + (b % 2)) % 2) + 2 * BitXor(a \div 2, b \div 2)

RECURSIVE BitAnd(_, _)
BitAnd(a, b) ==
    IF a = 0 \/ b = 0 THEN 0
    ELSE ((a % 2) * (b % 2)) + 2 * BitAnd(a \div 2, b \div 2)

\* GetSignature: (PC ^ (PC >> 12) ^ (PC >> 20)) & (SIG_TABLE_SIZE - 1)
GetSignature(PC) ==
    BitAnd(BitXor(BitXor(PC, PC \div 4096), PC \div 1048576), SIG_TABLE_SIZE - 1)

(***************************************************************************)
(* IEEE binary64 values >= 0: [exp, man] is 1.man[2..53] * 2^exp with      *)
(* man[1] = 1; DblZero is 0.0.  Division and subtraction round the exact   *)
(* result to nearest, ties to even.                                        *)
(***************************************************************************)
DBL_MANT == 53

DblZero == [exp |-> 0, man |-> <<>>]

Zeros(k) == [i \in 1 .. k |-> 0]

\* bits + 1 as a bit string of the same length, with the carry out: the
\* t trailing ones become zeros and the zero before them becomes one
BitsIncrement(bits) ==
    LET n == Len(bits)
        t == Cardinality({i \in 1 .. n : \A j \in i .. n : bits[j] = 1})
    IN [bits |-> [i \in 1 .. n |-> IF i > n - t THEN 0
                                   ELSE IF i = n - t THEN 1
                                   ELSE bits[i]],
        carry |-> IF t = n THEN 1 ELSE 0]

\* round to nearest even: bits are the first 53 significant bits, guard the
\* next one, sticky whether any later bit is set
DblRound(exp, bits, guard, sticky) ==
    IF guard = 1 /\ (sticky \/ bits[DBL_MANT] = 1)
    THEN LET r == BitsIncrement(bits)
         IN IF r.carry = 1
            THEN [exp |-> exp + 1, man |-> <<1>> \o SubSeq(r.bits, 1, DBL_MANT - 1)]
            ELSE [exp |-> exp, man |-> r.bits]
    ELSE [exp |-> exp, man |-> bits]

\* a/b scaled by a power of two into [1, 2)
RECURSIVE DblNormalize(_, _, _)
DblNormalize(a, b, e) ==
    IF a < b THEN DblNormalize(2 * a, b, e - 1)
    ELSE IF a >= 2 * b THEN DblNormalize(a, 2 * b, e + 1)
    ELSE [a |-> a, b |-> b, e |-> e]

\* the next k bits of the binary expansion of r/b (r < b), and the remainder
RECURSIVE QuotientBits(_, _, _)
QuotientBits(r, b, k) ==
    IF k = 0 THEN [bits |-> <<>>, rem |-> r]
    ELSE IF r = 0 THEN [bits |-> Zeros(k), rem |-> 0]
    ELSE LET bit == IF 2 * r >= b THEN 1 ELSE 0
             rest == QuotientBits(2 * r - bit * b, b, k - 1)
         IN [bits |-> <<bit>> \o rest.bits, rem |-> rest.rem]

\* (double)m / n for unsigned integers m, n with n > 0.  The 52 bits after
\* the leading one are produced in four runs of 13.
DblDiv(m, n) ==
    IF m = 0 THEN DblZero
    ELSE LET nz == DblNormalize(m, n, 0)
             q1 == QuotientBits(nz.a - nz.b, nz.b, 13)
             q2 == QuotientBits(q1.rem, nz.b, 13)
             q3 == QuotientBits(q2.rem, nz.b, 13)
             q4 == QuotientBits(q3.rem, nz.b, 13)
             guard == IF 2 * q4.rem >= nz.b THEN 1 ELSE 0
             sticky == (2 * q4.rem - guard * nz.b) # 0
         IN DblRound(nz.e, <<1>> \o q1.bits \o q2.bits \o q3.bits \o q4.bits,
                     guard, sticky)

\* compare x[lo..hi] with y[lo..hi] as binary numbers: -1, 0 or 1
RECURSIVE BitsCompare(_, _, _, _)
BitsCompare(x, y, lo, hi) ==
    IF lo = hi THEN x[lo] - y[lo]
    ELSE LET mid == (lo + hi) \div 2
             left == BitsCompare(x, y, lo, mid)
         IN IF left # 0 THEN left ELSE BitsCompare(x, y, mid + 1, hi)

\* x < y
DblLess(x, y) ==
    IF y = DblZero THEN FALSE
    ELSE IF x = DblZero THEN TRUE
    ELSE IF x.exp # y.exp THEN x.exp < y.exp
    ELSE BitsCompare(x.man, y.man, 1, DBL_MANT) < 0

\* x[lo..hi] - y[lo..hi] - borrow as a bit string, and the borrow out of lo
RECURSIVE BitsSubRange(_, _, _, _, _)
BitsSubRange(x, y, lo, hi, borrow) ==
    IF lo = hi
    THEN LET d == x[lo] - y[lo] - borrow
         IN [bits |-> <<IF d < 0 THEN d + 2 ELSE d>>, borrow |-> IF d < 0 THEN 1 ELSE 0]
    ELSE LET mid == (lo + hi) \div 2
             low == BitsSubRange(x, y, mid + 1, hi, borrow)
             high == IF low.borrow = 1
                     THEN BitsSubRange(x, y, lo, mid, 1)
                     ELSE BitsSubRange(x, y, lo, mid, 0)
         IN [bits |-> high.bits \o low.bits, borrow |-> high.borrow]

\* x - y on bit strings of equal length, x >= y
BitsSub(x, y) == BitsSubRange(x, y, 1, Len(x), 0).bits

LeadingZeros(bits) ==
    Cardinality({i \in 1 .. Len(bits) : \A j \in 1 .. i : bits[j] = 0})

\* std::fabs(x - y)
DblAbsDiff(x, y) ==
    IF x = y THEN DblZero
    ELSE LET big == IF DblLess(x, y) THEN y ELSE x
             small == IF DblLess(x, y) THEN x ELSE y
         IN IF small = DblZero THEN big
            ELSE LET d == big.exp - small.exp
                     diff == BitsSub(big.man \o Zeros(d), Zeros(d) \o small.man)
                     z == LeadingZeros(diff)
                     sig == SubSeq(diff, z + 1, Len(diff)) \o Zeros(DBL_MANT + 1)
                 IN DblRound(big.exp - z, SubSeq(sig, 1, DBL_MANT), sig[DBL_MANT + 1],
                             \E i \in (DBL_MANT + 2) .. Len(sig) : sig[i] = 1)

\* The decimal literals of the source, as the doubles the compiler reads.
PHASE_CHANGE_DELTA == DblDiv(1, 20)
STREAM_LOW_RATIO == DblDiv(1, 10)
STREAM_HIGH_RATIO == DblDiv(7, 10)

(***************************************************************************)
(* State: the policy's static storage.                                     *)
(***************************************************************************)
VARIABLES
    RRPV, valid_entries, sig_mem, has_hit, is_streaming,
    SHCT, STCT, last_addr,
    g_STCT_THRESHOLD,
    stat_hits, stat_misses,
    epoch_accesses, epoch_hits, epoch_misses,
    stream_inserts, stream_hits, stream_misses,
    prev_miss_rate,
    \* observation of the run: the last call (arguments, return value, what
    \* it read of the slot it replaced) and the number of calls made
    \* and the miss count of the epoch that prev_miss_rate was computed from
    call, victim_calls, hit_calls, miss_calls, outcome_steps, prev_epoch_misses,
    \* per set, the way GetVictimInSet last filled with RRPV = MAX_RRPV by
    \* replacing a valid line, while no call has hit that way or chosen a
    \* victim in the set since; LLC_WAYS when there is none
    candidate

vars == <<RRPV, valid_entries, sig_mem, has_hit, is_streaming, SHCT, STCT, last_addr,
          g_STCT_THRESHOLD, stat_hits, stat_misses, epoch_accesses, epoch_hits,
          epoch_misses, stream_inserts, stream_hits, stream_misses, prev_miss_rate,
          call, victim_calls, hit_calls, miss_calls, outcome_steps, prev_epoch_misses,
          candidate>>

NoCall ==
    [op |-> "InitReplacementState", set |-> 0, way |-> 0, sig |-> 0, blk |-> 0,
     hit |-> FALSE, n |-> 0, passes |-> 0, delta |-> "none",
     victim_valid |-> FALSE, victim_hit |-> FALSE, victim_streaming |-> FALSE,
     victim_sig |-> 0, monitor |-> FALSE, error |-> "none", expected |-> LLC_WAYS]

(***************************************************************************)
(* InitReplacementState                                                    *)
(***************************************************************************)
InitState ==
    /\ stat_hits = 0 /\ stat_misses = 0
    /\ epoch_accesses = 0 /\ epoch_hits = 0 /\ epoch_misses = 0
    /\ stream_inserts = 0 /\ stream_hits = 0 /\ stream_misses = 0
    /\ prev_miss_rate = DblZero
    /\ g_STCT_THRESHOLD = STCT_INIT + 1
    /\ valid_entries = [s \in Sets |-> [w \in Ways |-> FALSE]]
    /\ RRPV = [s \in Sets |-> [w \in Ways |-> MAX_RRPV]]
    /\ sig_mem = [s \in Sets |-> [w \in Ways |-> 0]]
    /\ has_hit = [s \in Sets |-> [w \in Ways |-> FALSE]]
    /\ is_streaming = [s \in Sets |-> [w \in Ways |-> FALSE]]
    /\ SHCT = [i \in Sigs |-> SHCT_INIT]
    /\ STCT = [i \in Sigs |-> STCT_INIT]
    /\ last_addr = [i \in Sigs |-> INVALID_BLK]

Init ==
    /\ InitState
    /\ call = NoCall
    /\ victim_calls = 0 /\ hit_calls = 0 /\ miss_calls = 0 /\ outcome_steps = 0
    /\ prev_epoch_misses = 0
    /\ candidate = [s \in Sets |-> LLC_WAYS]

\* the initialisation without the loop over the signature tables
InitReplacementStateKeepsTables ==
    /\ stat_hits' = 0 /\ stat_misses' = 0
    /\ epoch_accesses' = 0 /\ epoch_hits' = 0 /\ epoch_misses' = 0
    /\ stream_inserts' = 0 /\ stream_hits' = 0 /\ stream_misses' = 0
    /\ prev_miss_rate' = DblZero
    /\ g_STCT_THRESHOLD' = STCT_INIT + 1
    /\ valid_entries' = [s \in Sets |-> [w \in Ways |-> FALSE]]
    /\ RRPV' = [s \in Sets |-> [w \in Ways |-> MAX_RRPV]]
    /\ sig_mem' = [s \in Sets |-> [w \in Ways |-> 0]]
    /\ has_hit' = [s \in Sets |-> [w \in Ways |-> FALSE]]
    /\ is_streaming' = [s \in Sets |-> [w \in Ways |-> FALSE]]
    /\ UNCHANGED <<SHCT, STCT, last_addr>>
    /\ call' = [NoCall EXCEPT !.n = 1]
    /\ victim_calls' = 0 /\ hit_calls' = 0 /\ miss_calls' = 0 /\ outcome_steps' = 0
    /\ prev_epoch_misses' = 0
    /\ candidate' = [s \in Sets |-> LLC_WAYS]

InitReplacementState ==
    /\ stat_hits' = 0 /\ stat_misses' = 0
    /\ epoch_accesses' = 0 /\ epoch_hits' = 0 /\ epoch_misses' = 0
    /\ stream_inserts' = 0 /\ stream_hits' = 0 /\ stream_misses' = 0
    /\ prev_miss_rate' = DblZero
    /\ g_STCT_THRESHOLD' = STCT_INIT + 1
    /\ valid_entries' = [s \in Sets |-> [w \in Ways |-> FALSE]]
    /\ RRPV' = [s \in Sets |-> [w \in Ways |-> MAX_RRPV]]
    /\ sig_mem' = [s \in Sets |-> [w \in Ways |-> 0]]
    /\ has_hit' = [s \in Sets |-> [w \in Ways |-> FALSE]]
    /\ is_streaming' = [s \in Sets |-> [w \in Ways |-> FALSE]]
    /\ SHCT' = [i \in Sigs |-> SHCT_INIT]
    /\ STCT' = [i \in Sigs |-> STCT_INIT]
    /\ last_addr' = [i \in Sigs |-> INVALID_BLK]
    /\ call' = [NoCall EXCEPT !.n = 1]
    /\ victim_calls' = 0 /\ hit_calls' = 0 /\ miss_calls' = 0 /\ outcome_steps' = 0
    /\ prev_epoch_misses' = 0
    /\ candidate' = [s \in Sets |-> LLC_WAYS]

(***************************************************************************)
(* FindVictimWay: the first invalid way, else the RRIP search.  The result *)
(* is the way, the set's RRPV row after aging and the number of aging      *)
(* passes; done is FALSE when SearchFuel passes found no way.              *)
(***************************************************************************)
\* the scan taking the last matching way instead of the first
MaxWay(S) == CHOOSE w \in S : \A v \in S : w >= v

MinWay(S) == CHOOSE w \in S : \A v \in S : w <= v

\* the aging loop starting at way 1
AgeRowSkipFirst(row) ==
    [w \in Ways |-> IF w > 0 /\ row[w] < MAX_RRPV THEN row[w] + 1 ELSE row[w]]

\* the aging loop stopping one short of MAX_RRPV
AgeRowShort(row) ==
    [w \in Ways |-> IF row[w] < MAX_RRPV - 1 THEN row[w] + 1 ELSE row[w]]

AgeRow(row) == [w \in Ways |-> IF row[w] < MAX_RRPV THEN row[w] + 1 ELSE row[w]]

RECURSIVE AgingSearch(_, _)
AgingSearch(row, passes) ==
    IF \E w \in Ways : row[w] = MAX_RRPV
    THEN [done |-> TRUE, way |-> MinWay({w \in Ways : row[w] = MAX_RRPV}),
          row |-> row, passes |-> passes]
    ELSE IF passes >= SearchFuel
    THEN [done |-> FALSE, way |-> LLC_WAYS, row |-> row, passes |-> passes]
    ELSE AgingSearch(AgeRow(row), passes + 1)

FindVictimWay(set) ==
    IF \E w \in Ways : ~valid_entries[set][w]
    THEN [done |-> TRUE, way |-> MinWay({w \in Ways : ~valid_entries[set][w]}),
          row |-> RRPV[set], passes |-> 0]
    ELSE AgingSearch(RRPV[set], 0)

(***************************************************************************)
(* GetVictimInSet (select_victim)                                          *)
(***************************************************************************)
\* Stream detection update for signature sig and block address blk_addr
StreamBranch(sig, blk_addr) ==
    IF last_addr[sig] = INVALID_BLK THEN "first"
    ELSE IF blk_addr - last_addr[sig] = 1 \/ blk_addr - last_addr[sig] = -1
    THEN "adjacent"
    ELSE "other"

\* the decrement without its floor check, on a uint8_t
StreamDetectNoFloor(sig, blk_addr) ==
    IF last_addr[sig] # INVALID_BLK
    THEN IF blk_addr - last_addr[sig] = 1 \/ blk_addr - last_addr[sig] = -1
         THEN [STCT EXCEPT ![sig] = IF @ < STCT_MAX THEN @ + 1 ELSE @]
         ELSE [STCT EXCEPT ![sig] = (@ + 255) % 256]
    ELSE STCT

\* a repeated block address taken for an adjacent one
StreamDetectWide(sig, blk_addr) ==
    IF last_addr[sig] # INVALID_BLK
    THEN IF blk_addr - last_addr[sig] \in {-1, 0, 1}
         THEN [STCT EXCEPT ![sig] = IF @ < STCT_MAX THEN @ + 1 ELSE @]
         ELSE [STCT EXCEPT ![sig] = IF @ > 0 THEN @ - 1 ELSE @]
    ELSE STCT

StreamDetect(sig, blk_addr) ==
    IF last_addr[sig] # INVALID_BLK
    THEN IF blk_addr - last_addr[sig] = 1 \/ blk_addr - last_addr[sig] = -1
         THEN [STCT EXCEPT ![sig] = IF @ < STCT_MAX THEN @ + 1 ELSE @]
         ELSE [STCT EXCEPT ![sig] = IF @ > 0 THEN @ - 1 ELSE @]
    ELSE STCT

\* the penalty without the valid_entries check
EvictionPenaltyAnySlot(set, way) ==
    IF ~has_hit[set][way] /\ SHCT[sig_mem[set][way]] > 0
    THEN [SHCT EXCEPT ![sig_mem[set][way]] = @ - 1]
    ELSE SHCT

\* the penalty without the has_hit check
EvictionPenaltyHitToo(set, way) ==
    IF valid_entries[set][way] /\ SHCT[sig_mem[set][way]] > 0
    THEN [SHCT EXCEPT ![sig_mem[set][way]] = @ - 1]
    ELSE SHCT

\* Eviction penalty on the SHCT for the slot being replaced
EvictionPenalty(set, way) ==
    IF valid_entries[set][way] /\ ~has_hit[set][way] /\ SHCT[sig_mem[set][way]] > 0
    THEN [SHCT EXCEPT ![sig_mem[set][way]] = @ - 1]
    ELSE SHCT

StreamMissCount(set, way) ==
    IF valid_entries[set][way] /\ is_streaming[set][way] /\ ~has_hit[set][way]
    THEN stream_misses + 1
    ELSE stream_misses

\* the hot test written with > instead of >=
InsertionRRPVStrict(shct, stream) ==
    IF shct > SHCT_THRESHOLD THEN 0
    ELSE IF stream THEN 1
    ELSE MAX_RRPV

\* the streaming test made before the hot test
InsertionRRPVStreamFirst(shct, stream) ==
    IF stream THEN 1
    ELSE IF shct >= SHCT_THRESHOLD THEN 0
    ELSE MAX_RRPV

\* Three-tier insertion
InsertionRRPV(shct, stream) ==
    IF shct >= SHCT_THRESHOLD THEN 0
    ELSE IF stream THEN 1
    ELSE MAX_RRPV

\* the hot test reading SHCT[sig] as it was before the eviction penalty
ClassifySHCTEarly(set, way, sig) == SHCT[sig]

\* SHCT[sig] as the insertion reads it, after the eviction penalty
ClassifySHCT(set, way, sig) == EvictionPenalty(set, way)[sig]

\* the install flipping the valid bit instead of setting it
InstallValidFlip(set, way) == [valid_entries EXCEPT ![set][way] = ~@]

\* valid_entries[set][way] = true
InstallValid(set, way) == [valid_entries EXCEPT ![set][way] = TRUE]

GetVictimInSet(set, PC, paddr) ==
    LET sig == GetSignature(PC)
        blk_addr == paddr \div 64
        stct == StreamDetect(sig, blk_addr)
        fv == FindVictimWay(set)
        way == fv.way
        shct == EvictionPenalty(set, way)
        stream == stct[sig] >= g_STCT_THRESHOLD
        observed == [op |-> "GetVictimInSet", set |-> set, way |-> way, sig |-> sig,
                     blk |-> blk_addr, hit |-> FALSE, n |-> 1, passes |-> fv.passes,
                     delta |-> StreamBranch(sig, blk_addr), monitor |-> FALSE,
                     error |-> "none", expected |-> candidate[set]]
    IN /\ STCT' = stct
       /\ last_addr' = [last_addr EXCEPT ![sig] = blk_addr]
       /\ IF fv.done
          THEN /\ SHCT' = shct
               /\ stream_misses' = StreamMissCount(set, way)
               /\ sig_mem' = [sig_mem EXCEPT ![set][way] = sig]
               /\ valid_entries' = InstallValid(set, way)
               /\ has_hit' = [has_hit EXCEPT ![set][way] = FALSE]
               /\ is_streaming' = [is_streaming EXCEPT ![set][way] = stream]
               /\ stream_inserts' = IF stream THEN stream_inserts + 1 ELSE stream_inserts
               /\ RRPV' = [RRPV EXCEPT ![set] =
                              [fv.row EXCEPT ![way] =
                                  InsertionRRPV(ClassifySHCT(set, way, sig), stream)]]
               /\ call' = observed @@
                              [victim_valid |-> valid_entries[set][way],
                               victim_hit |-> has_hit[set][way],
                               victim_streaming |-> is_streaming[set][way],
                               victim_sig |-> sig_mem[set][way]]
               /\ candidate' = [candidate EXCEPT ![set] =
                                   IF valid_entries[set][way] /\ RRPV'[set][way] = MAX_RRPV
                                   THEN way ELSE LLC_WAYS]
          ELSE \* the search is still aging the set: the call has not returned
               /\ RRPV' = [RRPV EXCEPT ![set] = fv.row]
               /\ call' = observed @@
                              [victim_valid |-> FALSE, victim_hit |-> FALSE,
                               victim_streaming |-> FALSE, victim_sig |-> 0]
               /\ UNCHANGED <<SHCT, stream_misses, sig_mem, valid_entries, has_hit,
                              is_streaming, stream_inserts, candidate>>
       /\ victim_calls' = victim_calls + 1
       /\ UNCHANGED <<g_STCT_THRESHOLD, stat_hits, stat_misses, epoch_accesses,
                      epoch_hits, epoch_misses, stream_hits, prev_miss_rate,
                      hit_calls, miss_calls, outcome_steps, prev_epoch_misses>>

(***************************************************************************)
(* MonitorEpoch                                                            *)
(***************************************************************************)
CurMissRate(accesses, misses) ==
    IF accesses # 0 THEN DblDiv(misses, accesses) ELSE DblZero

\* std::fabs(cur_mr - prev_miss_rate) >= PHASE_CHANGE_DELTA
PhaseChange(cur_mr, prev) ==
    ~DblLess(DblAbsDiff(cur_mr, prev), PHASE_CHANGE_DELTA)

StreamRatio(inserts, hits) ==
    IF inserts # 0 THEN DblDiv(hits, inserts) ELSE DblZero

\* the increment without its cap
AdjustThresholdNoCap(stream_ratio, threshold) ==
    IF DblLess(stream_ratio, STREAM_LOW_RATIO)
    THEN threshold + 1
    ELSE IF DblLess(STREAM_HIGH_RATIO, stream_ratio) /\ threshold > 1
    THEN threshold - 1
    ELSE threshold

AdjustThreshold(stream_ratio, threshold) ==
    IF DblLess(stream_ratio, STREAM_LOW_RATIO) /\ threshold < STCT_MAX
    THEN threshold + 1
    ELSE IF DblLess(STREAM_HIGH_RATIO, stream_ratio) /\ threshold > 1
    THEN threshold - 1
    ELSE threshold

\* MonitorEpoch on the counters as the crossing call leaves them
MonitorEpoch(accesses, misses, inserts, hits) ==
    LET cur_mr == CurMissRate(accesses, misses)
    IN /\ IF PhaseChange(cur_mr, prev_miss_rate)
          THEN /\ STCT' = [i \in Sigs |-> STCT_INIT]
               /\ last_addr' = [i \in Sigs |-> INVALID_BLK]
          ELSE UNCHANGED <<STCT, last_addr>>
       /\ g_STCT_THRESHOLD' = AdjustThreshold(StreamRatio(inserts, hits), g_STCT_THRESHOLD)
       /\ prev_miss_rate' = cur_mr
       /\ epoch_accesses' = 0 /\ epoch_hits' = 0 /\ epoch_misses' = 0
       /\ stream_inserts' = 0 /\ stream_hits' = 0 /\ stream_misses' = 0

(***************************************************************************)
(* UpdateReplacementState (record_outcome).  Outcomes is n consecutive     *)
(* calls with the same arguments of which at most the last reaches the     *)
(* epoch boundary; length is the epoch length.  One call is n = 1.         *)
(***************************************************************************)
\* the hit trains the signature of the accessing PC
HitSignaturePC(set, way, PC) == GetSignature(PC)

\* the miss counter growing on hits too
EpochMissesAlways(hit, n) == epoch_misses + n

\* epoch_misses after n calls
EpochMisses(hit, n) == IF hit THEN epoch_misses ELSE epoch_misses + n

\* a hit promoting every line of the set
HitRRPVWholeSet(set, way, hit) ==
    IF hit THEN [RRPV EXCEPT ![set] = [w \in Ways |-> 0]] ELSE RRPV

\* the promotion made without looking at hit
HitRRPVAlways(set, way, hit) == [RRPV EXCEPT ![set][way] = 0]

\* RRPV after the call: a hit promotes the line
HitRRPV(set, way, hit) == IF hit THEN [RRPV EXCEPT ![set][way] = 0] ELSE RRPV

\* the signature whose SHCT entry a hit on (set, way) by PC trains
HitSignature(set, way, PC) == sig_mem[set][way]

HitSHCT(sig, n) ==
    [SHCT EXCEPT ![sig] = IF @ + n <= SHCT_MAX THEN @ + n ELSE SHCT_MAX]

\* the boundary test written with > instead of >=
EpochBoundaryLate(accesses, length) == accesses > length

\* if (epoch_accesses >= EPOCH_LENGTH)
EpochBoundary(accesses, length) == accesses >= length

Outcomes(length, n, set, way, PC, hit) ==
    LET accesses == epoch_accesses + n
        hits == IF hit THEN epoch_hits + n ELSE epoch_hits
        misses == EpochMisses(hit, n)
        shits == IF hit /\ is_streaming[set][way] THEN stream_hits + n ELSE stream_hits
    IN /\ IF hit
          THEN /\ stat_hits' = stat_hits + n
               /\ has_hit' = [has_hit EXCEPT ![set][way] = TRUE]
               /\ SHCT' = HitSHCT(HitSignature(set, way, PC), n)
               /\ hit_calls' = hit_calls + n
               /\ UNCHANGED <<stat_misses, miss_calls>>
          ELSE /\ stat_misses' = stat_misses + n
               /\ miss_calls' = miss_calls + n
               /\ UNCHANGED <<stat_hits, has_hit, SHCT, hit_calls>>
       /\ RRPV' = HitRRPV(set, way, hit)
       /\ IF EpochBoundary(accesses, length)
          THEN /\ MonitorEpoch(accesses, misses, stream_inserts, shits)
               /\ prev_epoch_misses' = misses
          ELSE /\ epoch_accesses' = accesses
               /\ epoch_hits' = hits
               /\ epoch_misses' = misses
               /\ stream_hits' = shits
               /\ UNCHANGED <<STCT, last_addr, g_STCT_THRESHOLD, prev_miss_rate,
                              stream_inserts, stream_misses, prev_epoch_misses>>
       /\ call' = [op |-> "UpdateReplacementState", set |-> set, way |-> way,
                   sig |-> GetSignature(PC), blk |-> 0, hit |-> hit, n |-> n,
                   passes |-> 0, delta |-> "none", victim_valid |-> FALSE,
                   victim_hit |-> FALSE, victim_streaming |-> FALSE, victim_sig |-> 0,
                   monitor |-> EpochBoundary(accesses, length), error |-> "none",
                   expected |-> LLC_WAYS]
       /\ outcome_steps' = outcome_steps + 1
       /\ candidate' = IF hit /\ candidate[set] = way
                       THEN [candidate EXCEPT ![set] = LLC_WAYS] ELSE candidate
       /\ UNCHANGED <<valid_entries, sig_mem, is_streaming, victim_calls>>

UpdateReplacementState(set, way, PC, hit) ==
    Outcomes(EpochLen, 1, set, way, PC, hit)

(***************************************************************************)
(* Spec: any sequence of calls with in-range arguments, epoch length       *)
(* EpochLen.                                                               *)
(***************************************************************************)
Reinitialize == InitReplacementState

VictimCall ==
    /\ victim_calls < MaxVictimCalls
    /\ victim_calls + outcome_steps < MaxCalls
    /\ \E set \in FocusSets, PC \in PCs, paddr \in PAddrs : GetVictimInSet(set, PC, paddr)

OutcomeCall ==
    /\ outcome_steps < MaxOutcomeSteps
    /\ victim_calls + outcome_steps < MaxCalls
    /\ \E set \in FocusSets, way \in Ways, PC \in OutcomePCs, hit \in BOOLEAN :
           UpdateReplacementState(set, way, PC, hit)

Next == Reinitialize \/ VictimCall \/ OutcomeCall

Spec == Init /\ [][Next]_vars

(***************************************************************************)
(* SpecLong: the program's epoch length.  A run of n identical             *)
(* record_outcome calls is taken in one step; an epoch is a run of 40000   *)
(* and one of 60000 calls, or a run of 45000 and one of 55000 calls, so    *)
(* that an epoch's miss rate is 0, 0.40, 0.45, 0.55, 0.60 or 1.            *)
(***************************************************************************)
LongRuns == {40000, 45000, 55000, 60000}

LongVictimCall ==
    /\ victim_calls < LongVictimCalls
    /\ \E set \in FocusSets, PC \in PCs, paddr \in PAddrs : GetVictimInSet(set, PC, paddr)

LongOutcomeCall ==
    /\ outcome_steps < LongOutcomeSteps
    /\ \E n \in LongRuns, set \in FocusSets, way \in Ways, PC \in OutcomePCs, hit \in BOOLEAN :
           /\ epoch_accesses + n <= EPOCH_LENGTH
           /\ Outcomes(EPOCH_LENGTH, n, set, way, PC, hit)

NextLong == LongVictimCall \/ LongOutcomeCall

SpecLong == Init /\ [][NextLong]_vars

(***************************************************************************)
(* SpecSets: calls to every set, at most MaxSetsCalls of them.             *)
(***************************************************************************)
SetsVictimCall ==
    /\ victim_calls + outcome_steps < MaxSetsCalls
    /\ \E set \in Sets, PC \in SetsPCs, paddr \in SetsPAddrs :
           GetVictimInSet(set, PC, paddr)

SetsOutcomeCall ==
    /\ victim_calls + outcome_steps < MaxSetsCalls
    /\ \E set \in Sets, way \in Ways, PC \in OutcomePCs, hit \in BOOLEAN :
           UpdateReplacementState(set, way, PC, hit)

NextSets == SetsVictimCall \/ SetsOutcomeCall

SpecSets == Init /\ [][NextSets]_vars

(***************************************************************************)
(* SpecUnchecked: calls whose set or way index is outside the arrays.  The *)
(* code tests no index.  The arrays are row-major, so slot [set][way] is   *)
(* element set * LLC_WAYS + way: an index pair that is out of range lands  *)
(* on another slot of the same array when that element exists, and past    *)
(* the array otherwise.  An access past the array is undefined: a read     *)
(* yields any value, and a store is taken to hit no object of the policy.  *)
(***************************************************************************)
SetArgs == Sets \cup {LLC_SETS}
WayArgs == Ways \cup {LLC_WAYS}

InRange(set, way) == set \in Sets /\ way \in Ways

\* the slot an index pair lands on, <<>> when it is past the array
Landing(set, way) ==
    LET element == set * LLC_WAYS + way
    IN IF element < LLC_SETS * LLC_WAYS
       THEN <<element \div LLC_WAYS, element % LLC_WAYS>>
       ELSE <<>>

\* GetVictimInSet with set >= LLC_SETS: every row access is past the arrays.
\* The stream detector runs as usual; the search returns some way; the reads
\* of valid_entries, has_hit, is_streaming and sig_mem decide the penalties.
OutOfRangeVictim(set, PC, paddr) ==
    LET sig == GetSignature(PC)
        blk_addr == paddr \div 64
        stct == StreamDetect(sig, blk_addr)
        stream == stct[sig] >= g_STCT_THRESHOLD
    IN \E way \in Ways, penalised \in Sigs \cup {SIG_TABLE_SIZE}, counted \in BOOLEAN :
          /\ STCT' = stct
          /\ last_addr' = [last_addr EXCEPT ![sig] = blk_addr]
          /\ SHCT' = IF penalised \in Sigs /\ SHCT[penalised] > 0
                     THEN [SHCT EXCEPT ![penalised] = @ - 1] ELSE SHCT
          /\ stream_misses' = IF counted THEN stream_misses + 1 ELSE stream_misses
          /\ stream_inserts' = IF stream THEN stream_inserts + 1 ELSE stream_inserts
          /\ call' = [NoCall EXCEPT !.op = "GetVictimInSet", !.set = set, !.way = way,
                                    !.sig = sig, !.blk = blk_addr, !.n = 1,
                                    !.delta = StreamBranch(sig, blk_addr)]
          /\ victim_calls' = victim_calls + 1
          /\ UNCHANGED <<RRPV, valid_entries, sig_mem, has_hit, is_streaming,
                         g_STCT_THRESHOLD, stat_hits, stat_misses, epoch_accesses,
                         epoch_hits, epoch_misses, stream_hits, prev_miss_rate,
                         hit_calls, miss_calls, outcome_steps, prev_epoch_misses,
                         candidate>>

\* UpdateReplacementState with an index pair out of range
OutOfRangeOutcome(set, way, PC, hit) ==
    LET slot == Landing(set, way)
        accesses == epoch_accesses + 1
        hits == IF hit THEN epoch_hits + 1 ELSE epoch_hits
        misses == EpochMisses(hit, 1)
    IN \E read_sig \in Sigs, read_streaming \in BOOLEAN :
          LET line_sig == IF slot # <<>> THEN sig_mem[slot[1]][slot[2]] ELSE read_sig
              streaming == IF slot # <<>> THEN is_streaming[slot[1]][slot[2]]
                           ELSE read_streaming
              shits == IF hit /\ streaming THEN stream_hits + 1 ELSE stream_hits
          IN /\ slot # <<>> => read_sig = 0 /\ ~read_streaming
             /\ IF hit
                THEN /\ stat_hits' = stat_hits + 1
                     /\ hit_calls' = hit_calls + 1
                     /\ SHCT' = HitSHCT(line_sig, 1)
                     /\ IF slot # <<>>
                        THEN /\ has_hit' = [has_hit EXCEPT ![slot[1]][slot[2]] = TRUE]
                             /\ RRPV' = [RRPV EXCEPT ![slot[1]][slot[2]] = 0]
                        ELSE UNCHANGED <<has_hit, RRPV>>
                     /\ UNCHANGED <<stat_misses, miss_calls>>
                ELSE /\ stat_misses' = stat_misses + 1
                     /\ miss_calls' = miss_calls + 1
                     /\ UNCHANGED <<stat_hits, hit_calls, SHCT, has_hit, RRPV>>
             /\ IF EpochBoundary(accesses, EpochLen)
                THEN /\ MonitorEpoch(accesses, misses, stream_inserts, shits)
                     /\ prev_epoch_misses' = misses
                ELSE /\ epoch_accesses' = accesses
                     /\ epoch_hits' = hits
                     /\ epoch_misses' = misses
                     /\ stream_hits' = shits
                     /\ UNCHANGED <<STCT, last_addr, g_STCT_THRESHOLD, prev_miss_rate,
                                    stream_inserts, stream_misses, prev_epoch_misses>>
             /\ call' = [NoCall EXCEPT !.op = "UpdateReplacementState", !.set = set,
                                       !.way = way, !.sig = GetSignature(PC),
                                       !.hit = hit, !.n = 1,
                                       !.monitor = EpochBoundary(accesses, EpochLen)]
             /\ outcome_steps' = outcome_steps + 1
             /\ candidate' = IF hit /\ slot # <<>> /\ candidate[slot[1]] = slot[2]
                             THEN [candidate EXCEPT ![slot[1]] = LLC_WAYS] ELSE candidate
             /\ UNCHANGED <<valid_entries, sig_mem, is_streaming, victim_calls>>

UncheckedVictimCall ==
    /\ victim_calls + outcome_steps < MaxUncheckedCalls
    /\ \E set \in SetArgs, PC \in PCs, paddr \in SetsPAddrs :
          IF set \in Sets THEN GetVictimInSet(set, PC, paddr)
          ELSE OutOfRangeVictim(set, PC, paddr)

UncheckedOutcomeCall ==
    /\ victim_calls + outcome_steps < MaxUncheckedCalls
    /\ \E set \in SetArgs, way \in WayArgs, PC \in OutcomePCs, hit \in BOOLEAN :
          IF InRange(set, way) THEN UpdateReplacementState(set, way, PC, hit)
          ELSE OutOfRangeOutcome(set, way, PC, hit)

NextUnchecked == UncheckedVictimCall \/ UncheckedOutcomeCall

SpecUnchecked == Init /\ [][NextUnchecked]_vars

(***************************************************************************)
(* Properties.  A property of one call is an action property: unprimed     *)
(* variables are the state before the call, primed ones the state after    *)
(* it, and call' is the call that was made.                                *)
(***************************************************************************)
MinOf(a, b) == IF a < b THEN a ELSE b
MaxOf(a, b) == IF a > b THEN a ELSE b

IsVictimCall == call'.op = "GetVictimInSet"
IsOutcomeCall == call'.op = "UpdateReplacementState"

\* C1: in every reachable state every line's rrpv is in 0..3, every shct and
\* stct is in 0..3, every stored signature is in 0..SIG_TABLE_SIZE-1 and the
\* dynamic streaming threshold is in 1..3.
C1_Ranges ==
    /\ \A s \in Sets, w \in Ways :
           /\ RRPV[s][w] \in 0 .. 3
           /\ sig_mem[s][w] \in 0 .. (SIG_TABLE_SIZE - 1)
    /\ \A i \in Sigs : SHCT[i] \in 0 .. 3 /\ STCT[i] \in 0 .. 3
    /\ g_STCT_THRESHOLD \in 1 .. 3

\* a state with an shct at its cap, an stct at the floor and the threshold
\* at its cap
C1_Witness ==
    /\ \E i \in Sigs : SHCT[i] = 3
    /\ \E i \in Sigs : STCT[i] = 0
    /\ g_STCT_THRESHOLD = 3

\* C2: the victim search returns a way in 0..ways-1; on a set whose ways are
\* all valid it makes at most MAX_RRPV aging passes and the way it returns
\* has rrpv = MAX_RRPV when it is chosen (its rrpv before the call plus the
\* passes made reaches MAX_RRPV).
C2_VictimSearch ==
    [][IsVictimCall =>
          /\ call'.way \in Ways
          /\ (\A w \in Ways : valid_entries[call'.set][w]) =>
                 /\ call'.passes <= MAX_RRPV
                 /\ MinOf(RRPV[call'.set][call'.way] + call'.passes, MAX_RRPV) = MAX_RRPV
      ]_vars

\* a search that returned after MAX_RRPV aging passes over a full set
C2_Witness ==
    /\ call.op = "GetVictimInSet"
    /\ call.victim_valid
    /\ call.passes = MAX_RRPV
    /\ call.way \in Ways

\* C3: when the set has an invalid way, select_victim returns the lowest
\* invalid way, changes the rrpv of no other way of the set, and applies no
\* shct penalty and no streaming-miss count.
C3_InvalidWayFirst ==
    [][IsVictimCall /\ (\E w \in Ways : ~valid_entries[call'.set][w]) =>
          /\ call'.way \in Ways
          /\ ~valid_entries[call'.set][call'.way]
          /\ \A w \in Ways : w < call'.way => valid_entries[call'.set][w]
          /\ call'.passes = 0
          /\ \A w \in Ways \ {call'.way} : RRPV'[call'.set][w] = RRPV[call'.set][w]
          /\ SHCT' = SHCT
          /\ stream_misses' = stream_misses
      ]_vars

\* the second way was filled while the first held a line with rrpv below MAX
C3_Witness ==
    /\ call.op = "GetVictimInSet"
    /\ ~call.victim_valid
    /\ call.way = 1
    /\ valid_entries[call.set][0]
    /\ RRPV[call.set][0] < MAX_RRPV

\* C4: select_victim for signature s and block address a sets stct[s] to
\* min(stct[s]+1, 3) when last_addr[s] is set and a - last_addr[s] is +1 or
\* -1, to max(stct[s]-1, 0) when it is set and the delta is anything else,
\* leaves it when last_addr[s] is unset; afterwards last_addr[s] = a, and no
\* other signature's stct or last_addr changes.
C4_StreamDetector ==
    [][IsVictimCall =>
          LET s == call'.sig
              a == call'.blk
          IN /\ STCT'[s] = IF last_addr[s] = INVALID_BLK THEN STCT[s]
                           ELSE IF a - last_addr[s] = 1 \/ a - last_addr[s] = -1
                           THEN MinOf(STCT[s] + 1, 3)
                           ELSE MaxOf(STCT[s] - 1, 0)
             /\ last_addr'[s] = a
             /\ \A i \in Sigs \ {s} : STCT'[i] = STCT[i] /\ last_addr'[i] = last_addr[i]
      ]_vars

\* four calls of one signature, the last three adjacent: the counter went
\* 1, 2, 3 and stayed at 3
C4_Witness ==
    /\ call.op = "GetVictimInSet"
    /\ call.delta = "adjacent"
    /\ victim_calls = 4 /\ outcome_steps = 0
    /\ STCT[call.sig] = STCT_MAX
    /\ \A i \in Sigs \ {call.sig} : last_addr[i] = INVALID_BLK

\* C5: the line select_victim installs has rrpv 0 if the incoming signature
\* is hot (shct >= 2 when the line is inserted), else rrpv 1 if it is
\* streaming (stct >= the dynamic threshold), else rrpv MAX; it has has_hit
\* false, stores the incoming signature and the streaming classification,
\* and the streaming-insert counter grows by one iff it is streaming.
C5_ThreeTierInsertion ==
    [][IsVictimCall /\ call'.way \in Ways =>
          LET s == call'.set
              w == call'.way
              hot == SHCT'[call'.sig] >= 2
              streaming == STCT'[call'.sig] >= g_STCT_THRESHOLD
          IN /\ RRPV'[s][w] = IF hot THEN 0 ELSE IF streaming THEN 1 ELSE MAX_RRPV
             /\ valid_entries'[s][w]
             /\ ~has_hit'[s][w]
             /\ sig_mem'[s][w] = call'.sig
             /\ is_streaming'[s][w] = streaming
             /\ stream_inserts' = stream_inserts + (IF streaming THEN 1 ELSE 0)
      ]_vars

\* a line inserted in the middle tier: not hot, streaming
C5_Witness ==
    /\ call.op = "GetVictimInSet"
    /\ call.way \in Ways
    /\ SHCT[call.sig] < SHCT_THRESHOLD
    /\ is_streaming[call.set][call.way]
    /\ RRPV[call.set][call.way] = 1

\* C6: when select_victim replaces a valid line that was never hit, the shct
\* of that line's stored signature drops by one with floor 0 and no other
\* shct changes, and the streaming-miss counter grows by one iff the line
\* was marked streaming; when the replaced line had been hit, no shct entry
\* is decremented.
C6_EvictionPenalty ==
    [][IsVictimCall /\ call'.way \in Ways /\ valid_entries[call'.set][call'.way] =>
          LET s == call'.set
              w == call'.way
          IN IF ~has_hit[s][w]
             THEN /\ \A i \in Sigs :
                        SHCT'[i] = IF i = sig_mem[s][w] THEN MaxOf(SHCT[i] - 1, 0) ELSE SHCT[i]
                  /\ stream_misses' = stream_misses + (IF is_streaming[s][w] THEN 1 ELSE 0)
             ELSE \A i \in Sigs : SHCT'[i] >= SHCT[i]
      ]_vars

\* a never-hit streaming line of another signature was evicted and its
\* signature is now below its initial shct
C6_Witness ==
    /\ call.op = "GetVictimInSet"
    /\ call.victim_valid /\ ~call.victim_hit /\ call.victim_streaming
    /\ call.victim_sig # call.sig
    /\ SHCT[call.victim_sig] < SHCT_INIT
    /\ SHCT[call.sig] = SHCT_INIT
    /\ stream_misses > 0

\* C7: record_outcome with hit set increments, saturating at 3, the shct of
\* the signature stored in the hit line, whatever the signature of the
\* access's PC, and changes no other shct; it sets the line's rrpv to 0 and
\* has_hit to true and leaves every other line of the set unchanged.
C7_HitUpdate ==
    [][IsOutcomeCall /\ call'.hit /\ call'.n = 1 =>
          LET s == call'.set
              w == call'.way
          IN /\ \A i \in Sigs :
                   SHCT'[i] = IF i = sig_mem[s][w] THEN MinOf(SHCT[i] + 1, 3) ELSE SHCT[i]
             /\ RRPV'[s][w] = 0
             /\ has_hit'[s][w]
             /\ \A v \in Ways \ {w} :
                   /\ RRPV'[s][v] = RRPV[s][v]
                   /\ has_hit'[s][v] = has_hit[s][v]
                   /\ valid_entries'[s][v] = valid_entries[s][v]
                   /\ sig_mem'[s][v] = sig_mem[s][v]
                   /\ is_streaming'[s][v] = is_streaming[s][v]
      ]_vars

\* three hits on one installed line by a PC of another signature: the line's
\* signature went 2, 3, 3 and the PC's signature was never trained
C7_Witness ==
    /\ call.op = "UpdateReplacementState" /\ call.hit
    /\ valid_entries[call.set][call.way]
    /\ call.sig # sig_mem[call.set][call.way]
    /\ hit_calls = 3 /\ victim_calls = 1
    /\ SHCT[sig_mem[call.set][call.way]] = SHCT_MAX
    /\ SHCT[call.sig] = SHCT_INIT

\* C8: at an epoch boundary, if the miss rate of the epoch that ends and the
\* miss rate of the epoch before it (0 before the first) differ by at least
\* 0.05, every stct is STCT_INIT and every last_addr is unset afterwards; if
\* they differ by less, no stct and no last_addr changes; the boundary
\* changes no shct (a crossing hit trains its line's signature as any hit).
\* Both epochs have EPOCH_LENGTH accesses, so the rates differ by at least
\* 1/20 iff 20 times the difference of the miss counts is at least
\* EPOCH_LENGTH.
C8_PhaseReset ==
    [][IsOutcomeCall /\ call'.monitor =>
          LET accesses == epoch_accesses + call'.n
              misses == IF call'.hit THEN epoch_misses ELSE epoch_misses + call'.n
              apart == IF misses >= prev_epoch_misses THEN misses - prev_epoch_misses
                       ELSE prev_epoch_misses - misses
              line_sig == sig_mem[call'.set][call'.way]
          IN /\ accesses = EPOCH_LENGTH
             /\ IF 20 * apart >= accesses
                THEN /\ \A i \in Sigs : STCT'[i] = STCT_INIT
                     /\ \A i \in Sigs : last_addr'[i] = INVALID_BLK
                ELSE STCT' = STCT /\ last_addr' = last_addr
             /\ \A i \in Sigs :
                   SHCT'[i] = IF call'.hit /\ i = line_sig
                              THEN MinOf(SHCT[i] + call'.n, 3) ELSE SHCT[i]
      ]_vars

\* C9: at an epoch boundary the dynamic threshold grows by one (capped at 3)
\* if stream hits / stream inserts (0 without inserts) is below 0.10, drops
\* by one (floored at 1) if it is above 0.70, and is unchanged otherwise;
\* select_victim and a record_outcome that does not reach the boundary leave
\* it unchanged.
C9_ThresholdAdaptation ==
    [][/\ IsOutcomeCall /\ call'.monitor =>
             LET inserts == stream_inserts
                 hits == IF call'.hit /\ is_streaming[call'.set][call'.way]
                         THEN stream_hits + call'.n ELSE stream_hits
                 below == inserts = 0 \/ 10 * hits < inserts
                 above == inserts # 0 /\ 10 * hits > 7 * inserts
             IN g_STCT_THRESHOLD' = IF below THEN MinOf(g_STCT_THRESHOLD + 1, 3)
                                    ELSE IF above THEN MaxOf(g_STCT_THRESHOLD - 1, 1)
                                    ELSE g_STCT_THRESHOLD
       /\ IsVictimCall \/ (IsOutcomeCall /\ ~call'.monitor) =>
             g_STCT_THRESHOLD' = g_STCT_THRESHOLD
      ]_vars

\* a boundary that followed an epoch with streaming inserts and lowered the
\* threshold to its floor
C9_Witness ==
    /\ call.op = "UpdateReplacementState" /\ call.monitor
    /\ victim_calls > 0
    /\ g_STCT_THRESHOLD = 1

\* C10: the epoch monitor runs on a record_outcome call iff the number of
\* record_outcome calls since initialize is a multiple of the epoch length;
\* select_victim neither advances the epoch nor runs the monitor; right
\* after the monitor the epoch and streaming counters are zero and
\* prev_miss_rate is the miss rate of the epoch that ended; between calls
\* the epoch access counter is below the epoch length.
C10_EpochMonitor ==
    [][/\ epoch_accesses < EpochLen /\ epoch_accesses' < EpochLen
       /\ IsOutcomeCall =>
             /\ call'.monitor <=> (hit_calls' + miss_calls') % EpochLen = 0
             /\ call'.monitor =>
                    /\ epoch_accesses' = 0 /\ epoch_hits' = 0 /\ epoch_misses' = 0
                    /\ stream_inserts' = 0 /\ stream_hits' = 0 /\ stream_misses' = 0
                    /\ prev_miss_rate' =
                           DblDiv(IF call'.hit THEN epoch_misses ELSE epoch_misses + 1,
                                  EpochLen)
       /\ IsVictimCall =>
             /\ ~call'.monitor
             /\ epoch_accesses' = epoch_accesses
             /\ epoch_hits' = epoch_hits /\ epoch_misses' = epoch_misses
             /\ prev_miss_rate' = prev_miss_rate
      ]_vars

\* the second boundary, after select_victim calls, ending an epoch of one hit
\* and one miss
C10_Witness ==
    /\ call.op = "UpdateReplacementState" /\ call.monitor
    /\ victim_calls > 0
    /\ hit_calls + miss_calls = 2 * EpochLen
    /\ prev_miss_rate = DblDiv(1, 2)
    /\ epoch_accesses = 0

\* the first LLC_WAYS calls after initialize were select_victim calls on set
\* s with pairwise distinct signatures and consecutive block addresses
FirstFill(s) ==
    /\ victim_calls = LLC_WAYS /\ outcome_steps = 0
    /\ \A w \in Ways : valid_entries[s][w]
    /\ \A v, w \in Ways : v # w => sig_mem[s][v] # sig_mem[s][w]
    /\ \A w \in Ways : last_addr[sig_mem[s][w]] = last_addr[sig_mem[s][0]] + w

\* C11 as stated: after the first LLC_WAYS misses to a set, with distinct
\* signatures and sequential block addresses, every way is valid and every
\* installed line is cold and not streaming, with rrpv = 3.
C11_FirstFillCold ==
    \A s \in Sets : FirstFill(s) =>
        \A w \in Ways : RRPV[s][w] = MAX_RRPV /\ ~is_streaming[s][w]

\* C11 amended: after the first LLC_WAYS misses to a set, with distinct
\* signatures and sequential block addresses, every way is valid and every
\* installed line is in the hot tier (the initial shct 2 meets the hot
\* threshold 2) and not streaming, with rrpv = 0.
C11_FirstFillHot ==
    \A s \in Sets : FirstFill(s) =>
        \A w \in Ways : RRPV[s][w] = 0 /\ ~is_streaming[s][w] /\ ~has_hit[s][w]

\* a set filled by its first LLC_WAYS misses
C11_Witness ==
    /\ call.op = "GetVictimInSet"
    /\ FirstFill(call.set)
    /\ call.way = LLC_WAYS - 1
    /\ \A i \in Sigs : SHCT[i] = SHCT_INIT

\* the state of the policy: everything but the record of the run
policy == <<RRPV, valid_entries, sig_mem, has_hit, is_streaming, SHCT, STCT, last_addr,
            g_STCT_THRESHOLD, stat_hits, stat_misses, epoch_accesses, epoch_hits,
            epoch_misses, stream_inserts, stream_hits, stream_misses, prev_miss_rate>>

\* C12: a select_victim or record_outcome call whose set index is outside
\* the set count, or a record_outcome call whose way index is outside
\* 0..ways-1, is signalled as InvalidSetIndex / InvalidWayIndex and leaves
\* the policy state unchanged.
C12_IndexPrecondition ==
    [][(IsVictimCall \/ IsOutcomeCall)
       /\ (call'.set \notin Sets \/ (IsOutcomeCall /\ call'.way \notin Ways)) =>
          /\ call'.error \in {"InvalidSetIndex", "InvalidWayIndex"}
          /\ UNCHANGED policy
      ]_vars

IsInitCall == call'.op = "InitReplacementState"

\* C13: after initialize, no select_victim or record_outcome call, epoch
\* boundaries and phase-change resets included, turns a valid slot invalid;
\* the slot select_victim returns holds the new line (valid, the incoming
\* signature, not hit) when the call returns.
C13_ValidStaysValid ==
    [][~IsInitCall =>
          /\ \A s \in Sets, w \in Ways : valid_entries[s][w] => valid_entries'[s][w]
          /\ IsVictimCall /\ call'.way \in Ways =>
                 /\ valid_entries'[call'.set][call'.way]
                 /\ sig_mem'[call'.set][call'.way] = call'.sig
                 /\ ~has_hit'[call'.set][call'.way]
      ]_vars

\* an eviction: the slot held a valid line of another signature that had
\* been hit, and holds the new line
C13_Witness ==
    /\ call.op = "GetVictimInSet"
    /\ call.way \in Ways
    /\ call.victim_valid /\ call.victim_hit
    /\ call.victim_sig # call.sig
    /\ valid_entries[call.set][call.way]
    /\ sig_mem[call.set][call.way] = call.sig

\* the lifetime totals and the epoch counters against the calls made
Totals ==
    /\ stat_hits = hit_calls
    /\ stat_misses = miss_calls
    /\ epoch_hits + epoch_misses = epoch_accesses
    /\ epoch_accesses = (hit_calls + miss_calls) % EpochLen

\* C14: in every state the lifetime hit total is the number of
\* record_outcome calls with hit set since initialize and the lifetime miss
\* total the number with hit clear (an epoch boundary resets neither); the
\* epoch hit and miss counters sum to the epoch access counter and count
\* only the calls since the last epoch boundary.
C14_Totals ==
    [][/\ Totals /\ Totals'
       /\ IsOutcomeCall /\ ~call'.monitor =>
             /\ epoch_hits' = epoch_hits + (IF call'.hit THEN 1 ELSE 0)
             /\ epoch_misses' = epoch_misses + (IF call'.hit THEN 0 ELSE 1)
       /\ IsOutcomeCall /\ call'.monitor => epoch_hits' = 0 /\ epoch_misses' = 0
       /\ IsVictimCall => epoch_hits' = epoch_hits /\ epoch_misses' = epoch_misses
      ]_vars

\* the first call after an epoch boundary, a miss: the totals kept the two
\* hits of the epoch before
C14_Witness ==
    /\ call.op = "UpdateReplacementState" /\ ~call.hit
    /\ stat_hits = EpochLen /\ stat_misses = 1
    /\ epoch_hits = 0 /\ epoch_misses = 1 /\ epoch_accesses = 1

\* C15: initialize, from any reachable state, yields the startup state: every
\* slot invalid with rrpv 3, signature 0, has_hit and is_streaming false;
\* every shct 2 and stct 1 with last_addr unset; threshold 2; previous miss
\* rate 0; every lifetime, epoch and streaming counter 0.
C15_InitializeResets ==
    [][IsInitCall =>
          /\ \A s \in Sets, w \in Ways :
                 /\ ~valid_entries'[s][w] /\ RRPV'[s][w] = 3 /\ sig_mem'[s][w] = 0
                 /\ ~has_hit'[s][w] /\ ~is_streaming'[s][w]
          /\ \A i \in Sigs : SHCT'[i] = 2 /\ STCT'[i] = 1 /\ last_addr'[i] = INVALID_BLK
          /\ g_STCT_THRESHOLD' = 2
          /\ prev_miss_rate' = DblZero
          /\ stat_hits' = 0 /\ stat_misses' = 0
          /\ epoch_accesses' = 0 /\ epoch_hits' = 0 /\ epoch_misses' = 0
          /\ stream_inserts' = 0 /\ stream_hits' = 0 /\ stream_misses' = 0
      ]_vars

\* the state right after a repeated initialize
C15_Witness ==
    /\ call.op = "InitReplacementState" /\ call.n = 1
    /\ \A s \in Sets, w \in Ways : ~valid_entries[s][w]
    /\ \A i \in Sigs : SHCT[i] = SHCT_INIT

\* C16: a line that select_victim installs with rrpv = MAX_RRPV by evicting a
\* valid line is the way the next select_victim on the same set returns,
\* with no aging pass, when no call hit that line in between, whatever hits
\* on other ways of the set and whatever calls on other sets came in between.
C16_PrimeCandidate ==
    [][IsVictimCall /\ call'.expected \in Ways =>
          /\ call'.way = call'.expected
          /\ call'.passes = 0
          /\ call'.victim_valid /\ ~call'.victim_hit
      ]_vars

\* the candidate was evicted after a hit on another way of its set, which
\* is at rrpv 0 still
C16_Witness ==
    /\ call.op = "GetVictimInSet"
    /\ call.expected \in Ways
    /\ call.way = call.expected /\ call.passes = 0
    /\ \E w \in Ways : w # call.way /\ has_hit[call.set][w] /\ RRPV[call.set][w] = 0

\* C17: record_outcome with hit clear that does not cross an epoch boundary
\* adds one to the lifetime miss total, the epoch access counter and the
\* epoch miss counter and changes nothing else: no line's
\* valid/rrpv/signature/has_hit/is_streaming, no shct, stct or last_addr, no
\* streaming counter, not the threshold nor the previous miss rate.
C17_MissFrame ==
    [][IsOutcomeCall /\ ~call'.hit /\ ~call'.monitor =>
          /\ stat_misses' = stat_misses + 1
          /\ epoch_accesses' = epoch_accesses + 1
          /\ epoch_misses' = epoch_misses + 1
          /\ UNCHANGED <<RRPV, valid_entries, sig_mem, has_hit, is_streaming,
                         SHCT, STCT, last_addr, g_STCT_THRESHOLD, stat_hits,
                         epoch_hits, stream_inserts, stream_hits, stream_misses,
                         prev_miss_rate>>
      ]_vars

\* a miss inside an epoch on a valid streaming line above rrpv 0, after an
\* eviction penalty
C17_Witness ==
    /\ call.op = "UpdateReplacementState" /\ ~call.hit /\ ~call.monitor
    /\ epoch_accesses = 1 /\ epoch_misses = 1
    /\ valid_entries[call.set][call.way]
    /\ is_streaming[call.set][call.way]
    /\ RRPV[call.set][call.way] > 0
    /\ \E i \in Sigs : SHCT[i] < SHCT_INIT

\* the largest rrpv of a set
MaxRRPV(s) == CHOOSE m \in 0..MAX_RRPV :
                  /\ \E w \in Ways : RRPV[s][w] = m
                  /\ \A w \in Ways : RRPV[s][w] <= m

\* C18: on a set whose ways are all valid the victim search returns the
\* lowest-index way among those holding the set's largest rrpv, after
\* MAX_RRPV minus that largest rrpv aging passes; every other way of the set
\* has its rrpv raised by exactly that number, so the order of the lines is
\* kept; the lines of other sets are untouched.
C18_FullSetSearch ==
    [][IsVictimCall /\ (\A w \in Ways : valid_entries[call'.set][w]) =>
          LET set == call'.set
              raise == MAX_RRPV - MaxRRPV(set)
          IN /\ RRPV[set][call'.way] = MaxRRPV(set)
             /\ \A w \in Ways : RRPV[set][w] = MaxRRPV(set) => call'.way <= w
             /\ call'.passes = raise
             /\ \A w \in Ways : w # call'.way => RRPV'[set][w] = RRPV[set][w] + raise
             /\ \A v, w \in Ways :
                    v # call'.way /\ w # call'.way /\ RRPV[set][v] <= RRPV[set][w]
                        => RRPV'[set][v] <= RRPV'[set][w]
             /\ \A s \in Sets : s # set =>
                    /\ RRPV'[s] = RRPV[s] /\ valid_entries'[s] = valid_entries[s]
                    /\ sig_mem'[s] = sig_mem[s] /\ has_hit'[s] = has_hit[s]
                    /\ is_streaming'[s] = is_streaming[s]
      ]_vars

\* a search that aged a full set by one or two passes, leaving another way
\* below MAX_RRPV
C18_Witness ==
    /\ call.op = "GetVictimInSet"
    /\ call.victim_valid
    /\ call.passes \in 1..(MAX_RRPV - 1)
    /\ \E w \in Ways : w # call.way /\ RRPV[call.set][w] = call.passes

\* C19: in one select_victim call the evicted line's shct penalty comes
\* before the classification of the incoming line: when the evicted line was
\* never hit, its signature is the incoming one and that shct was 2, the new
\* line is not hot: rrpv 1 when streaming, else rrpv 3.
C19_PenaltyBeforeClassification ==
    [][/\ IsVictimCall
       /\ call'.victim_valid /\ ~call'.victim_hit
       /\ call'.victim_sig = call'.sig
       /\ SHCT[call'.sig] = 2
       => /\ SHCT'[call'.sig] = 1
          /\ RRPV'[call'.set][call'.way] =
                 IF is_streaming'[call'.set][call'.way] THEN 1 ELSE MAX_RRPV
      ]_vars

\* a never-hit line replaced by a line of its own signature, which the
\* penalty took from 2 to 1
C19_Witness ==
    /\ call.op = "GetVictimInSet"
    /\ call.victim_valid /\ ~call.victim_hit
    /\ call.victim_sig = call.sig
    /\ SHCT[call.sig] = 1
    /\ victim_calls = LLC_WAYS + 1 /\ hit_calls = 0
    /\ RRPV[call.set][call.way] \in {1, MAX_RRPV}

ValidWays(valid, s) == Cardinality({w \in Ways : valid[s][w]})

\* C20: in every state the valid ways of each set are a prefix of the way
\* indices (a valid way has every lower way valid), and between two
\* initializations no call lowers the number of valid ways of a set.
C20_ValidPrefix ==
    [][/\ \A s \in Sets, w \in Ways, v \in Ways :
              (valid_entries[s][w] /\ v < w => valid_entries[s][v])
              /\ (valid_entries'[s][w] /\ v < w => valid_entries'[s][v])
       /\ ~IsInitCall =>
              \A s \in Sets : ValidWays(valid_entries', s) >= ValidWays(valid_entries, s)
      ]_vars

\* a set filled in part, while the other is full
C20_Witness ==
    /\ call.op = "GetVictimInSet"
    /\ \E s, t \in Sets :
           /\ valid_entries[s][0] /\ ~valid_entries[s][LLC_WAYS - 1]
           /\ \A w \in Ways : valid_entries[t][w]

====
